---- MODULE Spec2Model ----
(***************************************************************************)
(* Race-result state machine of the mountain bike race system.             *)
(*                                                                         *)
(* The store holds one race document and the RaceResult collection.  Each  *)
(* service call runs in a call slot; every awaited store operation of a    *)
(* call is one step, so that the steps of two calls can interleave.  Spec  *)
(* runs one call at a time, ConcSpec runs two calls concurrently.          *)
(* RaceSpec and ConcRaceSpec run the race lifecycle operations alone,      *)
(* StatusSpec the rider status update with its notes argument.             *)
(***************************************************************************)
EXTENDS Integers, Sequences, FiniteSets, TLC

\* ------------------------------------------------------------------ bounds
NumRiders == 2          \* riders in the directory
MaxTicks == 2           \* the wall clock spans this many TickMs steps
TickMs == 500           \* milliseconds between two distinct clock readings
MaxCalls == 4           \* service calls issued in one sequential behaviour
MaxConcCalls == 3       \* service calls issued in one concurrent behaviour
MaxStatusCalls == 3     \* service calls issued in one behaviour with notes
MaxResults == 4         \* Results of the race in a store that is only read
MaxRecomputes == 2      \* recomputations run in a row
MaxSeconds == 7325      \* largest duration handed to formatTime
MaxLiveWrites == 2      \* write calls issued while standings are read

\* --------------------------------------------------------------- constants
MsPerSecond == 1000     \* divisor of the elapsed-time computation
SecondsPerHour == 3600  \* formatTime
SecondsPerMinute == 60  \* formatTime
Top3Limit == 3          \* length of the podium list

Riders == 1..NumRiders
RiderIds == 0..NumRiders    \* 0 resolves to no rider
TheRace == "R1"         \* the race document held by the store
NoRace == "R0"          \* an id that resolves to no race
RaceIds == {TheRace, NoRace}

RaceStatuses == {"Draft", "Open", "Closed", "InProgress", "Completed", "Cancelled"}
validStatuses == {"Registered", "Started", "Finished", "DNF", "DSQ"}
InvalidStatus == "InvalidStatus"
\* notes arguments: the default null, the empty string, a text
NotesArgs == {<< >>, << "" >>, << "crash" >>}

\* An optional field is <<>> when absent and <<v>> when it holds v.
Null == << >>
Some(v) == << v >>
Has(x) == x # Null
Val(x) == x[1]

SeqCalls == {"c1"}
ConcCalls == {"c1", "c2"}

VARIABLES
    now,        \* wall clock, in milliseconds
    race,       \* the race document: status, startTime, endTime
    results,    \* the RaceResult collection; a document's _id is its index
    call,       \* per call slot: operation, arguments, position, locals
    budget      \* number of service calls still to be issued

vars == << now, race, results, call, budget >>

\* ------------------------------------------------------------ documents
\* RaceResult document as the registration constructor builds it.
NewRaceResult(raceId, riderId) ==
    [ race |-> raceId, rider |-> riderId, status |-> "Registered",
      startTime |-> Null, finishTime |-> Null, totalTime |-> Null,
      position |-> Null, notes |-> Null ]

IdleCall ==
    [ op |-> "none", pc |-> "idle", race |-> NoRace, rider |-> 0,
      status |-> "none", t |-> Null, found |-> 0, startTime |-> Null,
      list |-> << >>, i |-> 0,
      notes |-> Null, manual |-> FALSE,
      pre |-> "none", regd |-> {}, ret |-> "none", retTime |-> Null, retPos |-> Null,
      retCount |-> 0, canStart |-> FALSE, err |-> "none", out |-> << >> ]

Ids == 1..Len(results)

\* Documents matching a filter on race and status, as a set of _ids.
Matching(raceId, statuses) ==
    { id \in Ids : results[id].race = raceId /\ results[id].status \in statuses }

\* Documents of one (race, rider) pair.
OfPair(raceId, riderId) ==
    { id \in Ids : results[id].race = raceId /\ results[id].rider = riderId }

\* findOne returns the first matching document in natural order, 0 for none.
FirstOf(S) == IF S = {} THEN 0 ELSE CHOOSE id \in S : \A o \in S : id <= o

\* Status of the (race, rider) pair's document when a call is issued.
StatusOfPair(raceId, riderId) ==
    IF OfPair(raceId, riderId) = {} THEN "none"
    ELSE results[FirstOf(OfPair(raceId, riderId))].status

\* A free slot takes the next call.
Issue(c) ==
    /\ call[c].pc = "idle"
    /\ budget > 0
    /\ budget' = budget - 1

\* The call ends with an outcome; its locals are gone.
Finish(c, outcome) ==
    call' = [call EXCEPT ![c] =
        [IdleCall EXCEPT !.op = call[c].op, !.race = call[c].race,
                         !.rider = call[c].rider, !.status = call[c].status,
                         !.notes = call[c].notes,
                         !.pre = call[c].pre, !.regd = call[c].regd,
                         !.retTime = call[c].retTime,
                         !.retPos = call[c].retPos,
                         !.pc = "done", !.ret = outcome]]

\* ------------------------------------------------------------------ Init
\* The collection starts with the registrations the store already holds:
\* per rider none, or one Registered document as the registration builds it
\* (startTime unset until the mass start).
InitialResults(reg) ==
    LET all == [ r \in Riders |->
                   NewRaceResult(TheRace, r) ]
        Present(d) == reg[d.rider] # "absent"
    IN  SelectSeq(all, Present)

Store0 ==
    /\ now = 0
    /\ race = [ status |-> "Draft", startTime |-> 0, endTime |-> Null ]
    /\ \E k \in {NumRiders - 1, NumRiders} :
          results = InitialResults([r \in Riders |->
                                      IF r <= k THEN "unset" ELSE "absent"])
    /\ call = [ c \in ConcCalls |-> IdleCall ]

Init == Store0 /\ budget = MaxCalls

ConcInit == Store0 /\ budget = MaxConcCalls

\* ----------------------------------------------------------------- clock
\* new Date(): a reading of the wall clock, never earlier than the last one.
Readings == { now + k * TickMs : k \in 0..(MaxTicks - (now \div TickMs)) }

\* ------------------------------------------------------------- startRace
\* Entry and Race.findById: a missing race throws.
StartFindRace(c) ==
    /\ Issue(c)
    /\ \E raceId \in RaceIds :
          IF raceId # TheRace
          THEN call' = [call EXCEPT ![c] =
                   [IdleCall EXCEPT !.op = "startRace", !.race = raceId,
                                    !.pc = "done", !.ret = "Race not found"]]
          ELSE call' = [call EXCEPT ![c] =
                   [IdleCall EXCEPT !.op = "startRace", !.race = raceId,
                                    !.regd = Matching(raceId, {"Registered"}),
                                    !.pre = race.status,
                                    !.pc = IF race.status = "Draft"
                                           THEN "promote" ELSE "eligibility"]]
    /\ UNCHANGED << now, race, results >>

\* Mutant of StartPromote: the auto-transition is left out.
StartPromote_Skip(c) ==
    /\ call[c].op = "startRace" /\ call[c].pc = "promote"
    /\ call' = [call EXCEPT ![c].pc = "eligibility"]
    /\ UNCHANGED << now, race, results, budget >>

\* Auto-transition from Draft to Open.
StartPromote(c) ==
    /\ call[c].op = "startRace" /\ call[c].pc = "promote"
    /\ race' = [race EXCEPT !.status = "Open"]
    /\ call' = [call EXCEPT ![c].pc = "eligibility"]
    /\ UNCHANGED << now, results, budget >>

\* Mutant of canRaceBeStarted: the manual override is honoured before the
\* status is looked at.
canRaceBeStarted_OverrideFirst(raceId, isManualStart) ==
    IF raceId # TheRace THEN [canStart |-> FALSE, reason |-> "Race not found"]
    ELSE IF isManualStart THEN [canStart |-> TRUE, reason |-> "none"]
    ELSE IF race.status # "Open"
      THEN [canStart |-> FALSE, reason |-> "Race status must be Open to start"]
    ELSE IF race.startTime > now
      THEN [canStart |-> FALSE, reason |-> "Race starts in N minutes"]
    ELSE [canStart |-> TRUE, reason |-> "none"]

\* Mutant of canRaceBeStarted: a race scheduled for this very instant is
\* still in the future.
canRaceBeStarted_NotYet(raceId, isManualStart) ==
    IF raceId # TheRace THEN [canStart |-> FALSE, reason |-> "Race not found"]
    ELSE IF race.status # "Open"
      THEN [canStart |-> FALSE, reason |-> "Race status must be Open to start"]
    ELSE IF isManualStart THEN [canStart |-> TRUE, reason |-> "none"]
    ELSE IF race.startTime >= now
      THEN [canStart |-> FALSE, reason |-> "Race starts in N minutes"]
    ELSE [canStart |-> TRUE, reason |-> "none"]

\* canRaceBeStarted: the race is read, then the clock (the value of now).
canRaceBeStarted(raceId, isManualStart) ==
    IF raceId # TheRace THEN [canStart |-> FALSE, reason |-> "Race not found"]
    ELSE IF race.status # "Open"
      THEN [canStart |-> FALSE, reason |-> "Race status must be Open to start"]
    ELSE IF isManualStart THEN [canStart |-> TRUE, reason |-> "none"]
    ELSE IF race.startTime > now
      THEN [canStart |-> FALSE, reason |-> "Race starts in N minutes"]
    ELSE [canStart |-> TRUE, reason |-> "none"]

\* The eligibility answer arrives; on success the mass-start instant is sampled.
StartEligibility(c) ==
    /\ call[c].op = "startRace" /\ call[c].pc = "eligibility"
    /\ LET e == canRaceBeStarted(call[c].race, TRUE) IN
         IF e.canStart
         THEN \E t \in Readings :
                /\ now' = t
                /\ call' = [call EXCEPT ![c].pc = "updateRace", ![c].t = Some(t)]
         ELSE Finish(c, e.reason) /\ UNCHANGED now
    /\ UNCHANGED << race, results, budget >>

\* Race.findByIdAndUpdate: status InProgress, startTime = mass-start instant.
StartUpdateRace(c) ==
    /\ call[c].op = "startRace" /\ call[c].pc = "updateRace"
    /\ race' = [race EXCEPT !.status = "InProgress", !.startTime = Val(call[c].t)]
    /\ call' = [call EXCEPT ![c].pc = "updateMany"]
    /\ UNCHANGED << now, results, budget >>

\* Mutant of MassStart: updateOne instead of updateMany, only the first
\* Registered result of the race is started.
MassStart_FirstOnly(raceId, t) ==
    [ id \in Ids |->
        IF /\ Matching(raceId, {"Registered"}) # {}
           /\ id = FirstOf(Matching(raceId, {"Registered"}))
        THEN [results[id] EXCEPT !.status = "Started", !.startTime = Some(t)]
        ELSE results[id] ]

\* RaceResult.updateMany over the Registered results of the race.
MassStart(raceId, t) ==
    [ id \in Ids |->
        IF id \in Matching(raceId, {"Registered"})
        THEN [results[id] EXCEPT !.status = "Started", !.startTime = Some(t)]
        ELSE results[id] ]

StartUpdateMany(c) ==
    /\ call[c].op = "startRace" /\ call[c].pc = "updateMany"
    /\ results' = MassStart(call[c].race, Val(call[c].t))
    /\ call' = [call EXCEPT ![c].pc = "count"]
    /\ UNCHANGED << now, race, budget >>

\* RaceResult.countDocuments and the return value.
StartCount(c) ==
    /\ call[c].op = "startRace" /\ call[c].pc = "count"
    /\ call' = [call EXCEPT ![c] =
           [IdleCall EXCEPT !.op = call[c].op, !.race = call[c].race,
                            !.regd = call[c].regd, !.pre = call[c].pre,
                            !.pc = "done", !.ret = "ok",
                            !.retTime = call[c].t,
                            !.retCount =
                                Cardinality(Matching(call[c].race, {"Started"}))]]
    /\ UNCHANGED << now, race, results, budget >>

\* A store operation awaited by startRace rejects: the catch block logs and
\* rethrows, the call ends with the store's error and the operation that
\* failed is not applied.
StartStoreError(c) ==
    /\ call[c].op = "startRace"
    /\ call[c].pc \in {"promote", "updateRace", "updateMany", "count"}
    /\ call' = [call EXCEPT ![c] =
           [IdleCall EXCEPT !.op = call[c].op, !.race = call[c].race,
                            !.regd = call[c].regd, !.pre = call[c].pre,
                            !.retTime = call[c].t,
                            !.pc = "done", !.ret = "StoreError",
                            !.err = call[c].pc]]
    /\ UNCHANGED << now, race, results, budget >>

\* Race.findById rejects inside canRaceBeStarted: its catch block answers
\* {canStart: false, reason: 'Error checking race eligibility'} and startRace
\* throws that reason.
StartEligibilityError(c) ==
    /\ call[c].op = "startRace" /\ call[c].pc = "eligibility"
    /\ call' = [call EXCEPT ![c] =
           [IdleCall EXCEPT !.op = call[c].op, !.race = call[c].race,
                            !.regd = call[c].regd, !.pre = call[c].pre,
                            !.pc = "done",
                            !.ret = "Error checking race eligibility",
                            !.err = "eligibility"]]
    /\ UNCHANGED << now, race, results, budget >>

\* ----------------------------------------------------------- finishRider
\* Entry: the finish instant is sampled before the lookup is issued.
FinishCall(c) ==
    /\ Issue(c)
    /\ \E raceId \in {TheRace}, riderId \in Riders, t \in Readings :
          /\ now' = t
          /\ call' = [call EXCEPT ![c] =
              [IdleCall EXCEPT !.op = "finishRider", !.race = raceId,
                               !.rider = riderId, !.t = Some(t),
                               !.pre = StatusOfPair(raceId, riderId),
                               !.pc = "findOne"]]
    /\ UNCHANGED << race, results >>

\* Mutant of FinishFindOne: the lookup does not filter on the status.
FinishFindOne_AnyStatus(c) ==
    /\ call[c].op = "finishRider" /\ call[c].pc = "findOne"
    /\ LET id == FirstOf(OfPair(call[c].race, call[c].rider)) IN
         IF id = 0
         THEN Finish(c, "Rider not found or not started yet")
         ELSE call' = [call EXCEPT ![c].pc = "update", ![c].found = id,
                                   ![c].startTime = results[id].startTime]
    /\ UNCHANGED << now, race, results, budget >>

\* RaceResult.findOne({race, rider, status: 'Started'}).
FinishFindOne(c) ==
    /\ call[c].op = "finishRider" /\ call[c].pc = "findOne"
    /\ LET id == FirstOf(OfPair(call[c].race, call[c].rider)
                         \cap Matching(call[c].race, {"Started"})) IN
         IF id = 0
         THEN Finish(c, "Rider not found or not started yet")
         ELSE call' = [call EXCEPT ![c].pc = "update", ![c].found = id,
                                   ![c].startTime = results[id].startTime]
    /\ UNCHANGED << now, race, results, budget >>

\* Math.floor((finishTime - startTime) / 1000); NaN when startTime is unset.
TotalTime(finishTime, startTime) ==
    IF Has(startTime) THEN Some((finishTime - Val(startTime)) \div MsPerSecond)
    ELSE Null

\* RaceResult.findByIdAndUpdate(result._id, {Finished, finishTime, totalTime}).
\* A NaN totalTime fails the cast of the update and nothing is written.
FinishUpdate(c) ==
    /\ call[c].op = "finishRider" /\ call[c].pc = "update"
    /\ LET id == call[c].found
           totalTime == TotalTime(Val(call[c].t), call[c].startTime) IN
         IF ~Has(totalTime)
         THEN /\ Finish(c, "CastError")
              /\ UNCHANGED results
         ELSE /\ results' = [results EXCEPT ![id].status = "Finished",
                                            ![id].finishTime = call[c].t,
                                            ![id].totalTime = totalTime]
              /\ call' = [call EXCEPT ![c].pc = "positionsFind",
                                      ![c].retTime = totalTime,
                                      ![c].retPos = results[id].position]
    /\ UNCHANGED << now, race, budget >>

\* Mutant of KeyLE: descending sort.
KeyLE_Descending(a, b) == ~Has(b) \/ (Has(a) /\ Val(a) >= Val(b))

\* Ascending sort on totalTime: a missing key sorts first, equal keys come
\* back in any order.
KeyLE(a, b) == ~Has(a) \/ (Has(b) /\ Val(a) <= Val(b))

SortedByTotalTime(S) ==
    { l \in [1..Cardinality(S) -> S] :
        /\ \A i, j \in DOMAIN l : i # j => l[i] # l[j]
        /\ \A i, j \in DOMAIN l :
              i < j => KeyLE(results[l[i]].totalTime, results[l[j]].totalTime) }

\* updateRacePositions: find({race, status: 'Finished'}).sort({totalTime: 1}).
PositionsFind(c) ==
    /\ call[c].op \in {"finishRider", "updateRacePositions"}
    /\ call[c].pc = "positionsFind"
    /\ \E l \in SortedByTotalTime(Matching(call[c].race, {"Finished"})) :
          call' = [call EXCEPT ![c].list = l, ![c].i = 1,
                               ![c].pc = IF Len(l) = 0 THEN "top3"
                                         ELSE "positionsWrite"]
    /\ UNCHANGED << now, race, results, budget >>

\* One pass of the loop: findByIdAndUpdate(results[i]._id, {position: i + 1}).
PositionsWrite(c) ==
    /\ call[c].op \in {"finishRider", "updateRacePositions"}
    /\ call[c].pc = "positionsWrite"
    /\ LET i == call[c].i IN
         /\ results' = [results EXCEPT ![call[c].list[i]].position = Some(i)]
         /\ call' = [call EXCEPT ![c].i = i + 1,
                                 ![c].pc = IF i = Len(call[c].list) THEN "top3"
                                           ELSE "positionsWrite"]
    /\ UNCHANGED << now, race, budget >>

\* getTop3FastestRiders is read and dropped; the call returns the document
\* read back by the finish update.
FinishReturn(c) ==
    /\ call[c].op = "finishRider" /\ call[c].pc = "top3"
    /\ Finish(c, "ok")
    /\ UNCHANGED << now, race, results, budget >>

\* ------------------------------------------------------ updateRiderStatus
\* Entry: the status is validated and, for DNF/DSQ, the instant is sampled.
StatusCallOf(c, notesArgs) ==
    /\ Issue(c)
    /\ \E raceId \in {TheRace}, riderId \in Riders,
          status \in validStatuses \cup {InvalidStatus},
          notes \in notesArgs,
          t \in Readings :
          /\ now' = IF status \in {"DNF", "DSQ"} THEN t ELSE now
          /\ call' = [call EXCEPT ![c] =
              IF status \notin validStatuses
              THEN [IdleCall EXCEPT !.op = "updateRiderStatus", !.race = raceId,
                                    !.rider = riderId, !.status = status,
                                    !.notes = notes,
                                    !.pc = "done", !.ret = "Invalid status"]
              ELSE [IdleCall EXCEPT !.op = "updateRiderStatus", !.race = raceId,
                                    !.rider = riderId, !.status = status,
                                    !.notes = notes,
                                    !.pre = StatusOfPair(raceId, riderId),
                                    !.t = IF status \in {"DNF", "DSQ"}
                                          THEN Some(t) ELSE Null,
                                    !.pc = "statusUpdate"]]
    /\ UNCHANGED << race, results >>

\* updateRiderStatus(raceId, riderId, status): notes takes its default.
StatusCall(c) == StatusCallOf(c, {Null})

\* updateRiderStatus(raceId, riderId, status, notes).
StatusCallNotes(c) == StatusCallOf(c, NotesArgs)

\* if (notes) updateData.notes = notes: null and '' are not written.
Truthy(notes) == Has(notes) /\ Val(notes) # ""

\* Mutant of StatusUpdate: a missing document is inserted (upsert).
StatusUpdate_Upsert(c) ==
    /\ call[c].op = "updateRiderStatus" /\ call[c].pc = "statusUpdate"
    /\ LET id == FirstOf(OfPair(call[c].race, call[c].rider)) IN
         IF id = 0
         THEN results' = Append(results,
                  [NewRaceResult(call[c].race, call[c].rider)
                      EXCEPT !.status = call[c].status])
         ELSE results' = [results EXCEPT
                    ![id].status = call[c].status,
                    ![id].finishTime = IF Has(call[c].t) THEN call[c].t ELSE @,
                    ![id].notes = IF Truthy(call[c].notes)
                                  THEN call[c].notes ELSE @]
    /\ Finish(c, "ok")
    /\ UNCHANGED << now, race, budget >>

\* Mutant of StatusUpdate: a DNF/DSQ update also unsets totalTime.
StatusUpdate_UnsetTotalTime(c) ==
    /\ call[c].op = "updateRiderStatus" /\ call[c].pc = "statusUpdate"
    /\ LET id == FirstOf(OfPair(call[c].race, call[c].rider)) IN
         IF id = 0
         THEN /\ Finish(c, "Rider not found in this race")
              /\ UNCHANGED results
         ELSE /\ results' = [results EXCEPT
                    ![id].status = call[c].status,
                    ![id].finishTime = IF Has(call[c].t) THEN call[c].t ELSE @,
                    ![id].totalTime = IF Has(call[c].t) THEN Null ELSE @,
                    ![id].notes = IF Truthy(call[c].notes)
                                  THEN call[c].notes ELSE @]
              /\ Finish(c, "ok")
    /\ UNCHANGED << now, race, budget >>

\* RaceResult.findOneAndUpdate({race, rider}, updateData).
StatusUpdate(c) ==
    /\ call[c].op = "updateRiderStatus" /\ call[c].pc = "statusUpdate"
    /\ LET id == FirstOf(OfPair(call[c].race, call[c].rider)) IN
         IF id = 0
         THEN /\ Finish(c, "Rider not found in this race")
              /\ UNCHANGED results
         ELSE /\ results' = [results EXCEPT
                    ![id].status = call[c].status,
                    ![id].finishTime = IF Has(call[c].t) THEN call[c].t ELSE @,
                    ![id].notes = IF Truthy(call[c].notes)
                                  THEN call[c].notes ELSE @]
              /\ Finish(c, "ok")
    /\ UNCHANGED << now, race, budget >>

\* ----------------------------------------------------- registerParticipant
\* Entry, Race.findById and Rider.findById.
RegisterLookups(c) ==
    /\ Issue(c)
    /\ \E raceId \in RaceIds, riderId \in RiderIds :
          call' = [call EXCEPT ![c] =
              [IdleCall EXCEPT !.op = "registerParticipant", !.race = raceId,
                   !.rider = riderId,
                   !.pre = StatusOfPair(raceId, riderId),
                   !.pc = IF raceId # TheRace \/ riderId \notin Riders
                          THEN "done" ELSE "findExisting",
                   !.ret = IF raceId # TheRace THEN "Race not found"
                           ELSE IF riderId \notin Riders THEN "Rider not found"
                           ELSE "none"]]
    /\ UNCHANGED << now, race, results >>

\* RaceResult.findOne({race, rider}).
RegisterFindExisting(c) ==
    /\ call[c].op = "registerParticipant" /\ call[c].pc = "findExisting"
    /\ IF OfPair(call[c].race, call[c].rider) # {}
       THEN Finish(c, "Rider already registered for this race")
       ELSE call' = [call EXCEPT ![c].pc = "save"]
    /\ UNCHANGED << now, race, results, budget >>

\* pre('save') hook of the RaceResult schema.
PreSave(d) ==
    IF Has(d.finishTime) /\ Has(d.startTime) /\ d.status = "Finished"
    THEN [d EXCEPT !.totalTime =
             Some((Val(d.finishTime) - Val(d.startTime)) \div MsPerSecond)]
    ELSE d

\* Schema validation run by save: rider, race and startTime are required.
Validates(d) == Has(d.startTime)

\* Unique index on (race, rider).
UniqueIndexAdmits(d) == OfPair(d.race, d.rider) = {}

\* new RaceResult({race, rider, status: 'Registered'}).save().
RegisterSave(c) ==
    /\ call[c].op = "registerParticipant" /\ call[c].pc = "save"
    /\ LET d == PreSave(NewRaceResult(call[c].race, call[c].rider)) IN
         IF ~Validates(d)
         THEN /\ Finish(c, "ValidationError") /\ UNCHANGED results
         ELSE IF ~UniqueIndexAdmits(d)
         THEN /\ Finish(c, "DuplicateKey") /\ UNCHANGED results
         ELSE /\ results' = Append(results, d)
              /\ Finish(c, "ok")
    /\ UNCHANGED << now, race, budget >>

\* -------------------------------------------------------------- finishRace
\* Mutant of FinishRaceFind: any existing race can be finished.
FinishRaceFind_AnyStatus(c) ==
    /\ Issue(c)
    /\ \E raceId \in RaceIds :
          call' = [call EXCEPT ![c] =
              [IdleCall EXCEPT !.op = "finishRace", !.race = raceId,
                   !.pre = IF raceId = TheRace THEN race.status ELSE "none",
                   !.pc = IF raceId # TheRace THEN "done" ELSE "completeRace",
                   !.ret = IF raceId # TheRace THEN "Race not found"
                           ELSE "none"]]
    /\ UNCHANGED << now, race, results >>

\* Entry and Race.findById: a missing race and a race that is not in
\* progress throw.
FinishRaceFind(c) ==
    /\ Issue(c)
    /\ \E raceId \in RaceIds :
          call' = [call EXCEPT ![c] =
              [IdleCall EXCEPT !.op = "finishRace", !.race = raceId,
                   !.pre = IF raceId = TheRace THEN race.status ELSE "none",
                   !.pc = IF raceId # TheRace \/ race.status # "InProgress"
                          THEN "done" ELSE "completeRace",
                   !.ret = IF raceId # TheRace THEN "Race not found"
                           ELSE IF race.status # "InProgress"
                           THEN "Only races in progress can be finished"
                           ELSE "none"]]
    /\ UNCHANGED << now, race, results >>

\* Mutant of FinishRaceUpdate: riders still racing are marked DNF.
FinishRaceUpdate_ClosesResults(c) ==
    /\ call[c].op = "finishRace" /\ call[c].pc = "completeRace"
    /\ \E t \in Readings :
          /\ now' = t
          /\ race' = [race EXCEPT !.status = "Completed", !.endTime = Some(t)]
          /\ results' = [ id \in DOMAIN results |->
                 IF results[id].status = "Started"
                 THEN [ results[id] EXCEPT !.status = "DNF" ] ELSE results[id] ]
          /\ call' = [call EXCEPT ![c] =
                 [IdleCall EXCEPT !.op = call[c].op, !.race = call[c].race,
                                  !.pre = call[c].pre, !.retTime = Some(t),
                                  !.pc = "done", !.ret = "ok"]]
    /\ UNCHANGED budget

\* Race.findByIdAndUpdate(raceId, {status: 'Completed', endTime: new Date()}).
FinishRaceUpdate(c) ==
    /\ call[c].op = "finishRace" /\ call[c].pc = "completeRace"
    /\ \E t \in Readings :
          /\ now' = t
          /\ race' = [race EXCEPT !.status = "Completed", !.endTime = Some(t)]
          /\ call' = [call EXCEPT ![c] =
                 [IdleCall EXCEPT !.op = call[c].op, !.race = call[c].race,
                                  !.pre = call[c].pre, !.retTime = Some(t),
                                  !.pc = "done", !.ret = "ok"]]
    /\ UNCHANGED << results, budget >>

\* ------------------------------- PATCH /:raceId/riders/:riderId/finish
\* The router hands the rider-finish request to raceController.finishRace,
\* which reads only req.params.raceId and calls the service's finishRace:
\* Race.findById, with a missing race and a race not in progress throwing.
\* The rider's status at the time of the request is kept in pre.
RiderFinishRoute(c) ==
    /\ Issue(c)
    /\ \E raceId \in RaceIds, riderId \in Riders :
          call' = [call EXCEPT ![c] =
              [IdleCall EXCEPT !.op = "riderFinishRoute", !.race = raceId,
                   !.rider = riderId,
                   !.pre = StatusOfPair(raceId, riderId),
                   !.pc = IF raceId # TheRace \/ race.status # "InProgress"
                          THEN "done" ELSE "completeRace",
                   !.ret = IF raceId # TheRace THEN "Race not found"
                           ELSE IF race.status # "InProgress"
                           THEN "Only races in progress can be finished"
                           ELSE "none"]]
    /\ UNCHANGED << now, race, results >>

\* The request's Race.findByIdAndUpdate(raceId, {status: 'Completed',
\* endTime: new Date()}), answered with "Race finished successfully".
RiderFinishRouteUpdate(c) ==
    /\ call[c].op = "riderFinishRoute" /\ call[c].pc = "completeRace"
    /\ \E t \in Readings :
          /\ now' = t
          /\ race' = [race EXCEPT !.status = "Completed", !.endTime = Some(t)]
          /\ call' = [call EXCEPT ![c] =
                 [IdleCall EXCEPT !.op = call[c].op, !.race = call[c].race,
                                  !.rider = call[c].rider,
                                  !.pre = call[c].pre, !.retTime = Some(t),
                                  !.pc = "done", !.ret = "ok"]]
    /\ UNCHANGED << results, budget >>

\* -------------------------------------------------------- updateRaceStatus
\* The controller validates the status against the six race statuses, then
\* updateRace runs Race.findByIdAndUpdate(raceId, {status}); a missing race
\* yields a null race in a successful response.
UpdateRaceStatus(c) ==
    /\ Issue(c)
    /\ \E raceId \in RaceIds, status \in RaceStatuses \cup {InvalidStatus} :
          /\ race' = IF raceId = TheRace /\ status \in RaceStatuses
                     THEN [race EXCEPT !.status = status] ELSE race
          /\ call' = [call EXCEPT ![c] =
                 [IdleCall EXCEPT !.op = "updateRaceStatus", !.race = raceId,
                      !.status = status,
                      !.pre = IF raceId = TheRace THEN race.status ELSE "none",
                      !.pc = "done",
                      !.ret = IF status \in RaceStatuses THEN "ok"
                              ELSE "Invalid status"]]
    /\ UNCHANGED << now, results >>

\* -------------------------------------------------- canRaceBeStarted (call)
\* The eligibility check called on its own, with or without the override.
\* The clock is read after the race; the answer is taken on that reading.
CanStartCall(c) ==
    /\ Issue(c)
    /\ \E raceId \in RaceIds, isManualStart \in BOOLEAN, t \in Readings :
          /\ now' = t
          /\ UNCHANGED << race, results >>
          /\ call' = [call EXCEPT ![c] =
                 [IdleCall EXCEPT !.op = "canRaceBeStarted", !.race = raceId,
                      !.manual = isManualStart,
                      !.pc = "done",
                      !.canStart = canRaceBeStarted(raceId, isManualStart)'.canStart,
                      !.ret = canRaceBeStarted(raceId, isManualStart)'.reason]]

\* ----------------------------------------------------------------- reports
\* A read call takes a free slot; reads are not counted against the budget.
ReadIssue(c) ==
    /\ call[c].pc = "idle"
    /\ UNCHANGED budget

\* n.toString().padStart(2, '0')
Pad2(n) == IF n < 10 THEN "0" \o ToString(n) ELSE ToString(n)

\* Mutant of formatTime: minutes and seconds are not padded.
formatTime_Unpadded(seconds) ==
    IF ~Has(seconds) \/ Val(seconds) = 0 THEN Null
    ELSE LET hours == Val(seconds) \div SecondsPerHour
             minutes == (Val(seconds) % SecondsPerHour) \div SecondsPerMinute
             secs == Val(seconds) % SecondsPerMinute
         IN  IF hours > 0
             THEN Some(ToString(hours) \o ":" \o ToString(minutes)
                         \o ":" \o ToString(secs))
             ELSE Some(ToString(minutes) \o ":" \o ToString(secs))

\* formatTime(seconds): null for a missing or zero argument, H:MM:SS from
\* one hour on, M:SS below.
formatTime(seconds) ==
    IF ~Has(seconds) \/ Val(seconds) = 0 THEN Null
    ELSE LET hours == Val(seconds) \div SecondsPerHour
             minutes == (Val(seconds) % SecondsPerHour) \div SecondsPerMinute
             secs == Val(seconds) % SecondsPerMinute
         IN  IF hours > 0
             THEN Some(ToString(hours) \o ":" \o Pad2(minutes) \o ":" \o Pad2(secs))
             ELSE Some(ToString(minutes) \o ":" \o Pad2(secs))

\* `${x}` in a template literal: null is spelled out.
Template(x) == IF Has(x) THEN Val(x) ELSE "null"

\* Math.round(sum / count) for sum >= 0 and count > 0.
RoundDiv(sum, count) == (2 * sum + count) \div (2 * count)

\* The lists find(...).sort({totalTime: 1}) can return for the documents S.
RECURSIVE SortedLists(_)
SortedLists(S) ==
    IF S = {} THEN { << >> }
    ELSE UNION { { << m >> \o l : l \in SortedLists(S \ {m}) } :
                 m \in { x \in S : \A y \in S :
                            KeyLE(results[x].totalTime, results[y].totalTime) } }

RECURSIVE SumTotalTime(_)
SumTotalTime(S) ==
    IF S = {} THEN 0
    ELSE LET id == CHOOSE x \in S : TRUE
         IN  Val(results[id].totalTime) + SumTotalTime(S \ {id})

\* Smallest and largest totalTime of the documents S (Math.min, Math.max).
MinTotalTime(S) ==
    CHOOSE t \in { Val(results[id].totalTime) : id \in S } :
        \A id \in S : t <= Val(results[id].totalTime)

MaxTotalTime(S) ==
    CHOOSE t \in { Val(results[id].totalTime) : id \in S } :
        \A id \in S : t >= Val(results[id].totalTime)

\* Mutant of StandingsFindFinished: a persisted position is kept.
StandingsFindFinished_KeepsPersisted(c) ==
    /\ ReadIssue(c)
    /\ \E raceId \in RaceIds :
       \E finished \in SortedLists(Matching(raceId, {"Finished"})) :
          call' = [call EXCEPT ![c] =
              [IdleCall EXCEPT !.op = "getLiveStandings", !.race = raceId,
                   !.pc = "findStarted",
                   !.out = [ finished |->
                       [ i \in DOMAIN finished |->
                           [ id |-> finished[i],
                             totalTime |-> results[finished[i]].totalTime,
                             position |->
                                 IF Has(results[finished[i]].position)
                                 THEN Val(results[finished[i]].position) ELSE i,
                             formattedTime |->
                                 formatTime(results[finished[i]].totalTime) ] ] ] ]]
    /\ UNCHANGED << now, race, results >>

\* getLiveStandings: the four finds of the Promise.all, in the order of the
\* array, then the returned object.
StandingsFindFinished(c) ==
    /\ ReadIssue(c)
    /\ \E raceId \in RaceIds :
       \E finished \in SortedLists(Matching(raceId, {"Finished"})) :
          call' = [call EXCEPT ![c] =
              [IdleCall EXCEPT !.op = "getLiveStandings", !.race = raceId,
                   !.pc = "findStarted",
                   !.out = [ finished |->
                       [ i \in DOMAIN finished |->
                           [ id |-> finished[i],
                             totalTime |-> results[finished[i]].totalTime,
                             position |-> i,
                             formattedTime |->
                                 formatTime(results[finished[i]].totalTime) ] ] ] ]]
    /\ UNCHANGED << now, race, results >>

\* Mutant of StandingsFindStarted: the find has no status filter.
StandingsFindStarted_AnyStatus(c) ==
    /\ call[c].op = "getLiveStandings" /\ call[c].pc = "findStarted"
    /\ call' = [call EXCEPT ![c].pc = "findDnf",
                            ![c].out = [ finished |-> call[c].out.finished,
                                         started |-> Matching(call[c].race, validStatuses) ]]
    /\ UNCHANGED << now, race, results, budget >>

StandingsFindStarted(c) ==
    /\ call[c].op = "getLiveStandings" /\ call[c].pc = "findStarted"
    /\ call' = [call EXCEPT ![c].pc = "findDnf",
                            ![c].out = [ finished |-> call[c].out.finished,
                                         started |-> Matching(call[c].race, {"Started"}) ]]
    /\ UNCHANGED << now, race, results, budget >>

StandingsFindDnf(c) ==
    /\ call[c].op = "getLiveStandings" /\ call[c].pc = "findDnf"
    /\ call' = [call EXCEPT ![c].pc = "findDsq",
                            ![c].out = [ finished |-> call[c].out.finished,
                                         started |-> call[c].out.started,
                                         dnf |-> Matching(call[c].race, {"DNF"}) ]]
    /\ UNCHANGED << now, race, results, budget >>

StandingsFindDsq(c) ==
    /\ call[c].op = "getLiveStandings" /\ call[c].pc = "findDsq"
    /\ LET o == call[c].out
           dsq == Matching(call[c].race, {"DSQ"}) IN
         call' = [call EXCEPT ![c].pc = "done", ![c].ret = "ok",
                   ![c].out =
                       [ finished |-> o.finished,
                         stillRacing |-> Cardinality(o.started),
                         dnf |-> Cardinality(o.dnf),
                         dsq |-> Cardinality(dsq),
                         totalStarted |-> Len(o.finished) + Cardinality(o.started)
                                            + Cardinality(o.dnf) + Cardinality(dsq) ]]
    /\ UNCHANGED << now, race, results, budget >>

\* Mutant of getTop3FastestInRace: no limit on the list.
getTop3FastestInRace_NoLimit(raceId) ==
    SortedLists({ id \in Matching(raceId, {"Finished"}) : Has(results[id].totalTime) })

\* RaceResultRepository.getTop3FastestInRace: Finished results that have a
\* totalTime, ascending, first three.
getTop3FastestInRace(raceId) ==
    { SubSeq(l, 1, IF Len(l) < Top3Limit THEN Len(l) ELSE Top3Limit) :
        l \in SortedLists({ id \in Matching(raceId, {"Finished"}) :
                                Has(results[id].totalTime) }) }

\* getTop3FastestRiders: rank, formatted time and gap to the fastest.
getTop3FastestRiders(list) ==
    [ i \in DOMAIN list |->
        [ id |-> list[i],
          totalTime |-> results[list[i]].totalTime,
          rank |-> i,
          formattedTime |-> formatTime(results[list[i]].totalTime),
          gap |-> IF i = 1 THEN Null
                  ELSE Some("+" \o Template(formatTime(
                           Some(Val(results[list[i]].totalTime)
                                  - Val(results[list[1]].totalTime))))) ] ]

Top3Call(c) ==
    /\ ReadIssue(c)
    /\ \E raceId \in RaceIds :
       \E list \in getTop3FastestInRace(raceId) :
          call' = [call EXCEPT ![c] =
              [IdleCall EXCEPT !.op = "getTop3FastestRiders", !.race = raceId,
                   !.pc = "done", !.ret = "ok",
                   !.out = getTop3FastestRiders(list)]]
    /\ UNCHANGED << now, race, results >>

\* Mutant of aggregateDNFReasons: results without notes are counted under
\* the empty string.
aggregateDNFReasons_CountsEmpty(dnfRiders) ==
    LET Key(id) == IF Has(results[id].notes) THEN Val(results[id].notes) ELSE ""
    IN  [ n \in { Key(id) : id \in dnfRiders } |->
            Cardinality({ id \in dnfRiders : Key(id) = n }) ]

\* aggregateDNFReasons: occurrences of each non-empty notes string.
aggregateDNFReasons(dnfRiders) ==
    [ n \in { Val(results[id].notes) :
                id \in { x \in dnfRiders : Truthy(results[x].notes) } } |->
        Cardinality({ id \in dnfRiders : results[id].notes = Some(n) }) ]

\* getRidersWhoDidNotFinish: the DNF and DSQ results, split by status.
getRidersWhoDidNotFinish(raceId) ==
    LET dnfRiders == Matching(raceId, {"DNF", "DSQ"}) IN
      [ dnf |-> { id \in dnfRiders : results[id].status = "DNF" },
        dsq |-> { id \in dnfRiders : results[id].status = "DSQ" },
        total |-> Cardinality(dnfRiders),
        reasons |-> aggregateDNFReasons(dnfRiders) ]

DidNotFinishCall(c) ==
    /\ ReadIssue(c)
    /\ \E raceId \in RaceIds :
          call' = [call EXCEPT ![c] =
              [IdleCall EXCEPT !.op = "getRidersWhoDidNotFinish", !.race = raceId,
                   !.pc = "done", !.ret = "ok",
                   !.out = getRidersWhoDidNotFinish(raceId)]]
    /\ UNCHANGED << now, race, results >>

\* A totalTime that is not a number (a sum over a missing totalTime).
NaN == << "NaN" >>

\* calculateAverageTime: null for no results, else the rounded mean.
calculateAverageTime(finishedResults) ==
    IF finishedResults = {} THEN Null
    ELSE IF \E id \in finishedResults : ~Has(results[id].totalTime) THEN NaN
    ELSE Some(RoundDiv(SumTotalTime(finishedResults), Cardinality(finishedResults)))

\* Mutant of ReportFindRace: the reads are issued whether or not the race
\* was found.
ReportFindRace_AlwaysReads(c) ==
    /\ ReadIssue(c)
    /\ \E raceId \in RaceIds :
          call' = [call EXCEPT ![c] =
              [IdleCall EXCEPT !.op = "generateRaceReport", !.race = raceId,
                   !.pc = "reportReads"]]
    /\ UNCHANGED << now, race, results >>

\* generateRaceReport, Race.findById: a missing race returns {race: null}.
ReportFindRace(c) ==
    /\ ReadIssue(c)
    /\ \E raceId \in RaceIds :
          call' = [call EXCEPT ![c] =
              [IdleCall EXCEPT !.op = "generateRaceReport", !.race = raceId,
                   !.pc = IF raceId # TheRace THEN "done" ELSE "reportReads",
                   !.ret = IF raceId # TheRace THEN "ok" ELSE "none",
                   !.out = IF raceId # TheRace THEN [ race |-> Null ]
                           ELSE << >>]]
    /\ UNCHANGED << now, race, results >>

\* generateRaceReport: the three reads and the statistics.
ReportReads(c) ==
    /\ call[c].op = "generateRaceReport" /\ call[c].pc = "reportReads"
    /\ \E top3 \in getTop3FastestInRace(call[c].race) :
         LET all == Matching(call[c].race, validStatuses)
             dnf == getRidersWhoDidNotFinish(call[c].race)
             finishedResults == { id \in all : results[id].status = "Finished" }
         IN call' = [call EXCEPT ![c].pc = "done", ![c].ret = "ok",
                ![c].out =
                  [ race |-> Some(race),
                    statistics |->
                      [ totalParticipants |-> Cardinality(all),
                        finishedCount |-> Cardinality(finishedResults),
                        dnfCount |-> dnf.total,
                        dsqCount |-> Cardinality({ id \in all :
                                         results[id].status = "DSQ" }),
                        averageTime |-> calculateAverageTime(finishedResults) ],
                    top3Fastest |-> getTop3FastestRiders(top3),
                    didNotFinish |-> dnf ]]
    /\ UNCHANGED << now, race, results, budget >>

\* analyzeRaceCompletion.
analyzeRaceCompletion(raceId) ==
    LET allResults == Matching(raceId, validStatuses)
        Count(S) == Cardinality({ id \in allResults : results[id].status \in S })
        finishedResults ==
            { id \in allResults :
                /\ results[id].status = "Finished"
                /\ Has(results[id].totalTime) /\ Val(results[id].totalTime) # 0 }
        started == Count({"Started", "Finished", "DNF", "DSQ"})
    IN [ totalRegistered |-> Cardinality(allResults),
         finished |-> Count({"Finished"}),
         dnf |-> Count({"DNF"}),
         dsq |-> Count({"DSQ"}),
         started |-> started,
         completionRate |-> IF started > 0
                            THEN RoundDiv(Count({"Finished"}) * 100, started)
                            ELSE 0,
         averageTime |-> IF finishedResults = {} THEN Null
                         ELSE Some(RoundDiv(SumTotalTime(finishedResults),
                                            Cardinality(finishedResults))),
         fastestTime |-> IF finishedResults = {} THEN Null
                         ELSE Some(MinTotalTime(finishedResults)),
         slowestTime |-> IF finishedResults = {} THEN Null
                         ELSE Some(MaxTotalTime(finishedResults)) ]

AnalysisCall(c) ==
    /\ ReadIssue(c)
    /\ \E raceId \in RaceIds :
          call' = [call EXCEPT ![c] =
              [IdleCall EXCEPT !.op = "analyzeRaceCompletion", !.race = raceId,
                   !.pc = "done", !.ret = "ok",
                   !.out = analyzeRaceCompletion(raceId)]]
    /\ UNCHANGED << now, race, results >>

\* RaceService.updateRacePositions called on its own.
PositionsCall(c) ==
    /\ Issue(c)
    /\ \E raceId \in {TheRace} :
          call' = [call EXCEPT ![c] =
              [IdleCall EXCEPT !.op = "updateRacePositions", !.race = raceId,
                               !.pc = "positionsFind"]]
    /\ UNCHANGED << now, race, results >>

\* updateRacePositions returns the top three read after the writes.
PositionsReturn(c) ==
    /\ call[c].op = "updateRacePositions" /\ call[c].pc = "top3"
    /\ \E list \in getTop3FastestInRace(call[c].race) :
          call' = [call EXCEPT ![c].pc = "done", ![c].ret = "ok",
                               ![c].out = getTop3FastestRiders(list)]
    /\ UNCHANGED << now, race, results, budget >>

\* formatTime applied to a duration or to null.
FormatArgs == {Null} \cup { Some(n) : n \in 0..MaxSeconds }

FormatCall(c) ==
    /\ ReadIssue(c)
    /\ \E seconds \in FormatArgs :
          call' = [call EXCEPT ![c] =
              [IdleCall EXCEPT !.op = "formatTime", !.pc = "done", !.ret = "ok",
                   !.out = [ seconds |-> seconds,
                             formatted |-> formatTime(seconds) ]]]
    /\ UNCHANGED << now, race, results >>

\* ---------------------------------------------------------------- return
\* The caller has consumed the outcome; the slot is free for the next call.
Release(c) ==
    /\ call[c].pc = "done"
    /\ call' = [call EXCEPT ![c] = IdleCall]
    /\ UNCHANGED << now, race, results, budget >>

\* ------------------------------------------------------ specifications
Step(c) ==
    \/ StartFindRace(c)
    \/ StartPromote(c)
    \/ StartEligibility(c)
    \/ StartUpdateRace(c)
    \/ StartUpdateMany(c)
    \/ StartCount(c)
    \/ FinishCall(c)
    \/ FinishFindOne(c)
    \/ FinishUpdate(c)
    \/ PositionsFind(c)
    \/ PositionsWrite(c)
    \/ FinishReturn(c)
    \/ StatusCall(c)
    \/ StatusUpdate(c)
    \/ RegisterLookups(c)
    \/ RegisterFindExisting(c)
    \/ RegisterSave(c)
    \/ Release(c)

Next == \E c \in SeqCalls : Step(c)

ConcNext == \E c \in ConcCalls : Step(c)

Spec == Init /\ [][Next]_vars

ConcSpec == ConcInit /\ [][ConcNext]_vars

\* The race lifecycle on its own: start, finish, the administrative status
\* update and the eligibility check, on a race created with a scheduled
\* start time.
ScheduledStarts == {0, TickMs}

RaceStore0 ==
    /\ now = 0
    /\ \E s \in ScheduledStarts :
          race = [ status |-> "Draft", startTime |-> s, endTime |-> Null ]
    /\ results = InitialResults([r \in Riders |-> "unset"])
    /\ call = [ c \in ConcCalls |-> IdleCall ]

RaceInit == RaceStore0 /\ budget = MaxCalls

ConcRaceInit == RaceStore0 /\ budget = MaxConcCalls

RaceStep(c) ==
    \/ StartFindRace(c)
    \/ StartPromote(c)
    \/ StartEligibility(c)
    \/ StartUpdateRace(c)
    \/ StartUpdateMany(c)
    \/ StartCount(c)
    \/ FinishRaceFind(c)
    \/ FinishRaceUpdate(c)
    \/ UpdateRaceStatus(c)
    \/ CanStartCall(c)
    \/ Release(c)

RaceNext == \E c \in SeqCalls : RaceStep(c)

ConcRaceNext == \E c \in ConcCalls : RaceStep(c)

RaceSpec == RaceInit /\ [][RaceNext]_vars

ConcRaceSpec == ConcRaceInit /\ [][ConcRaceNext]_vars

\* The mass start followed by rider-finish requests.
RouteStep(c) ==
    \/ StartFindRace(c)
    \/ StartPromote(c)
    \/ StartEligibility(c)
    \/ StartUpdateRace(c)
    \/ StartUpdateMany(c)
    \/ StartCount(c)
    \/ RiderFinishRoute(c)
    \/ RiderFinishRouteUpdate(c)
    \/ Release(c)

RouteNext == \E c \in SeqCalls : RouteStep(c)

RouteSpec == RaceInit /\ [][RouteNext]_vars

\* Live standings read while riders finish and are withdrawn: the race is
\* in progress and every rider has been started.
LiveInit ==
    /\ now = 0
    /\ race = [ status |-> "InProgress", startTime |-> 0, endTime |-> Null ]
    /\ results = [ r \in Riders |->
                     [ NewRaceResult(TheRace, r) EXCEPT !.status = "Started",
                                                       !.startTime = Some(0) ] ]
    /\ call = [ c \in ConcCalls |-> IdleCall ]
    /\ budget = MaxLiveWrites

LiveStep(c) ==
    \/ StandingsFindFinished(c)
    \/ StandingsFindStarted(c)
    \/ StandingsFindDnf(c)
    \/ StandingsFindDsq(c)
    \/ FinishCall(c)
    \/ FinishFindOne(c)
    \/ FinishUpdate(c)
    \/ PositionsFind(c)
    \/ PositionsWrite(c)
    \/ FinishReturn(c)
    \/ StatusCall(c)
    \/ StatusUpdate(c)
    \/ Release(c)

LiveNext == \E c \in ConcCalls : LiveStep(c)

LiveSpec == LiveInit /\ [][LiveNext]_vars

\* The race is finished while riders are still racing; they finish later.
ClosingStep(c) ==
    \/ FinishRaceFind(c)
    \/ FinishRaceUpdate(c)
    \/ FinishCall(c)
    \/ FinishFindOne(c)
    \/ FinishUpdate(c)
    \/ PositionsFind(c)
    \/ PositionsWrite(c)
    \/ FinishReturn(c)
    \/ Release(c)

ClosingNext == \E c \in SeqCalls : ClosingStep(c)

ClosingInit ==
    /\ now = 0
    /\ race = [ status |-> "InProgress", startTime |-> 0, endTime |-> Null ]
    /\ results = [ r \in Riders |->
                     [ NewRaceResult(TheRace, r) EXCEPT !.status = "Started",
                                                       !.startTime = Some(0) ] ]
    /\ call = [ c \in ConcCalls |-> IdleCall ]
    /\ budget = MaxCalls

ClosingSpec == ClosingInit /\ [][ClosingNext]_vars

\* The race lifecycle with store operations of startRace that can fail.
FailStep(c) ==
    \/ RaceStep(c)
    \/ StartStoreError(c)
    \/ StartEligibilityError(c)

FailNext == \E c \in SeqCalls : FailStep(c)

FailSpec == RaceInit /\ [][FailNext]_vars

\* The reports, read from a store that no call writes.  The store holds up
\* to MaxResults Results of the race, each in one of the conditions the
\* write operations leave a Result in: registered; started by the mass
\* start; finished by finishRider with a totalTime and a position that the
\* last recomputation gave it (or none yet); set to Finished by a status
\* update with no totalTime; withdrawn as DNF or DSQ with or without notes,
\* before or after a finish, the notes differing in case between two of
\* them.  The Results are listed by condition: no report
\* depends on the natural order of the collection except through ties of
\* the sort, which SortedLists leaves open.
ReportShapes ==
    LET base == [ NewRaceResult(TheRace, 0) EXCEPT !.startTime = Some(0) ]
        Fin(tt, pos) == [ base EXCEPT !.status = "Finished",
                                      !.finishTime = Some(tt * MsPerSecond),
                                      !.totalTime = Some(tt), !.position = pos ]
    IN  << NewRaceResult(TheRace, 0),
          [ base EXCEPT !.status = "Started" ],
          [ base EXCEPT !.status = "Finished" ],
          Fin(0, Null), Fin(8000, Some(1)), Fin(8500, Some(1)), Fin(9000, Some(3)),
          [ Fin(8000, Some(1)) EXCEPT !.status = "DNF", !.notes = Some("crash") ],
          [ base EXCEPT !.status = "DNF", !.finishTime = Some(0) ],
          [ base EXCEPT !.status = "DNF", !.finishTime = Some(0),
                        !.notes = Some("Crash") ],
          [ base EXCEPT !.status = "DSQ", !.finishTime = Some(0),
                        !.notes = Some("crash") ],
          [ base EXCEPT !.status = "DSQ", !.finishTime = Some(0),
                        !.notes = Some("") ] >>

ReportStore0 ==
    /\ now = 0
    /\ race = [ status |-> "InProgress", startTime |-> 0, endTime |-> Null ]
    /\ \E n \in 0..MaxResults :
       \E shape \in [1..n -> DOMAIN ReportShapes] :
          /\ \A i, j \in 1..n : i < j => shape[i] <= shape[j]
          /\ results = [ i \in 1..n |->
                           [ ReportShapes[shape[i]] EXCEPT !.rider = i ] ]
    /\ call = [ c \in ConcCalls |-> IdleCall ]

ReportInit == ReportStore0 /\ budget = 0

ReportStep(c) ==
    \/ StandingsFindFinished(c)
    \/ StandingsFindStarted(c)
    \/ StandingsFindDnf(c)
    \/ StandingsFindDsq(c)
    \/ Top3Call(c)
    \/ DidNotFinishCall(c)
    \/ ReportFindRace(c)
    \/ ReportReads(c)
    \/ AnalysisCall(c)
    \/ Release(c)

ReportNext == \E c \in SeqCalls : ReportStep(c)

ReportSpec == ReportInit /\ [][ReportNext]_vars

\* formatTime on its own: a pure function, the store plays no part.
FormatStep(c) == FormatCall(c) \/ Release(c)

FormatNext == \E c \in SeqCalls : FormatStep(c)

FormatInit ==
    /\ now = 0
    /\ race = [ status |-> "InProgress", startTime |-> 0, endTime |-> Null ]
    /\ results = << >>
    /\ call = [ c \in ConcCalls |-> IdleCall ]
    /\ budget = 0

FormatSpec == FormatInit /\ [][FormatNext]_vars

\* The position recomputation run on its own, MaxRecomputes times in a
\* row, on the stores of the reports.
RecomputeInit == ReportStore0 /\ budget = MaxRecomputes

RecomputeStep(c) ==
    \/ PositionsCall(c)
    \/ PositionsFind(c)
    \/ PositionsWrite(c)
    \/ PositionsReturn(c)
    \/ Release(c)

RecomputeNext == \E c \in SeqCalls : RecomputeStep(c)

RecomputeSpec == RecomputeInit /\ [][RecomputeNext]_vars

\* Rider status updates with notes, between the mass start and the finishes.
StatusStep(c) ==
    \/ StartFindRace(c)
    \/ StartPromote(c)
    \/ StartEligibility(c)
    \/ StartUpdateRace(c)
    \/ StartUpdateMany(c)
    \/ StartCount(c)
    \/ FinishCall(c)
    \/ FinishFindOne(c)
    \/ FinishUpdate(c)
    \/ PositionsFind(c)
    \/ PositionsWrite(c)
    \/ FinishReturn(c)
    \/ StatusCallNotes(c)
    \/ StatusUpdate(c)
    \/ Release(c)

StatusNext == \E c \in SeqCalls : StatusStep(c)

StatusInit ==
    /\ now = 0
    /\ race = [ status |-> "Draft", startTime |-> 0, endTime |-> Null ]
    /\ results = InitialResults([r \in Riders |-> "unset"])
    /\ call = [ c \in ConcCalls |-> IdleCall ]
    /\ budget = MaxStatusCalls

StatusSpec == StatusInit /\ [][StatusNext]_vars

TypeOK ==
    /\ now \in 0..(MaxTicks * TickMs)
    /\ race.status \in RaceStatuses
    /\ \A id \in Ids : results[id].status \in validStatuses
    /\ budget \in 0..MaxCalls
\* ======================================================== shared predicates
Done(c, op) == call[c].op = op /\ call[c].pc = "done"
Succeeded(c, op) == Done(c, op) /\ call[c].ret = "ok"

Finished(raceId) == Matching(raceId, {"Finished"})

\* The persisted positions of the Finished results are exactly 1..N.
PositionsArePermutation(raceId) ==
    /\ \A id \in Finished(raceId) : Has(results[id].position)
    /\ { Val(results[id].position) : id \in Finished(raceId) }
          = 1..Cardinality(Finished(raceId))
    /\ \A a, b \in Finished(raceId) :
          a # b => results[a].position # results[b].position

\* A smaller totalTime has a smaller position.
PositionsFollowTotalTime(raceId) ==
    \A a, b \in Finished(raceId) :
        ( /\ Has(results[a].totalTime) /\ Has(results[b].totalTime)
          /\ Has(results[a].position) /\ Has(results[b].position)
          /\ Val(results[a].totalTime) < Val(results[b].totalTime) )
        => Val(results[a].position) < Val(results[b].position)

\* ================================================================== claims

\* C1: two finishRider calls for the same (race, rider), both issued while
\* the Result is Started (with its mass-start time), end with exactly one
\* success and one 'Rider not found or not started yet'.
C1_ExactlyOneFinishSucceeds ==
    \A c, d \in ConcCalls :
        ( /\ c # d
          /\ Done(c, "finishRider") /\ Done(d, "finishRider")
          /\ call[c].race = call[d].race /\ call[c].rider = call[d].rider
          /\ call[c].pre = "Started" /\ call[d].pre = "Started"
          /\ \A id \in OfPair(call[c].race, call[c].rider) :
                Has(results[id].startTime) )
        => \/ /\ call[c].ret = "ok"
              /\ call[d].ret = "Rider not found or not started yet"
           \/ /\ call[d].ret = "ok"
              /\ call[c].ret = "Rider not found or not started yet"

\* C2: when startRace has returned successfully, every Result that was
\* Registered for the race when the call was issued is Started and its
\* startTime is the massStartTime the call returned.
C2_MassStartCoherence ==
    \A c \in ConcCalls :
        Succeeded(c, "startRace") =>
            \A id \in call[c].regd :
                /\ results[id].status = "Started"
                /\ results[id].startTime = call[c].retTime

\* A start that returned with two riders registered beforehand.
C2_Witness ==
    \E c \in ConcCalls :
        /\ Succeeded(c, "startRace")
        /\ Cardinality(call[c].regd) >= 2
        /\ Has(call[c].retTime) /\ Val(call[c].retTime) > 0

\* C3: when a finishRider call (with the recomputation it triggers) has
\* completed with no other call in between, the persisted positions of the
\* race's Finished results are exactly 1..N and a smaller totalTime has a
\* smaller position.
C3_SequentialRanking ==
    \A c \in ConcCalls :
        Succeeded(c, "finishRider") =>
            /\ PositionsArePermutation(call[c].race)
            /\ PositionsFollowTotalTime(call[c].race)

\* A finish after which two results with different totalTime are ranked.
C3_Witness ==
    \E c \in ConcCalls :
        /\ Succeeded(c, "finishRider")
        /\ \E a, b \in Finished(call[c].race) :
              /\ Has(results[a].totalTime) /\ Has(results[b].totalTime)
              /\ Val(results[a].totalTime) < Val(results[b].totalTime)

\* C4: once two finishRider calls for different riders of one race have
\* both completed, however their steps interleaved, the persisted positions
\* of the Finished results are a permutation of 1..N ordered by totalTime.
\* Stated for calls issued after the mass start and finishers with pairwise
\* different totalTime, where the order of the ranking does not depend on
\* how the store orders equal keys.
C4_ConcurrentRankingConverges ==
    \A c, d \in ConcCalls :
        ( /\ c # d
          /\ Succeeded(c, "finishRider") /\ Succeeded(d, "finishRider")
          /\ call[c].race = call[d].race /\ call[c].rider # call[d].rider
          /\ call[c].pre = "Started" /\ call[d].pre = "Started"
          /\ \A a, b \in Finished(call[c].race) :
                a # b => results[a].totalTime # results[b].totalTime )
        => /\ PositionsArePermutation(call[c].race)
           /\ PositionsFollowTotalTime(call[c].race)

\* C5: in no reachable state do two Finished results of one race hold the
\* same persisted position.
C5_NoDuplicatePositions ==
    \A a, b \in Finished(TheRace) :
        ( a # b /\ Has(results[a].position) )
        => results[a].position # results[b].position

\* C6: every Finished Result has a totalTime, equal to
\* floor((finishTime - startTime) / 1000).
C6_FinishedHasDerivedTime ==
    \A id \in Ids :
        results[id].status = "Finished" =>
            /\ Has(results[id].totalTime)
            /\ Has(results[id].finishTime) /\ Has(results[id].startTime)
            /\ Val(results[id].totalTime) =
                  (Val(results[id].finishTime) - Val(results[id].startTime))
                      \div MsPerSecond

\* C7: every DNF or DSQ Result has no totalTime.
C7_WithdrawnHasNoTotalTime ==
    \A id \in Ids :
        results[id].status \in {"DNF", "DSQ"} => ~Has(results[id].totalTime)

\* C8: every Result that has a persisted position is Finished.
C8_PositionOnlyWhenFinished ==
    \A id \in Ids :
        Has(results[id].position) => results[id].status = "Finished"

\* C9: there is at most one Result per (race, rider) pair, and two register
\* calls for one pair, both issued when the pair had no Result, leave
\* exactly one Result in the store once both have completed.
C9_OneResultPerPair ==
    /\ \A raceId \in RaceIds, riderId \in Riders :
          Cardinality(OfPair(raceId, riderId)) <= 1
    /\ \A c, d \in ConcCalls :
          ( /\ c # d
            /\ Done(c, "registerParticipant") /\ Done(d, "registerParticipant")
            /\ call[c].race = TheRace /\ call[c].rider \in Riders
            /\ call[c].race = call[d].race /\ call[c].rider = call[d].rider
            /\ call[c].pre = "none" /\ call[d].pre = "none" )
          => Cardinality(OfPair(call[c].race, call[c].rider)) = 1

\* C10: register for an existing race and rider with no Result for the pair
\* succeeds and stores a Registered Result whose startTime is unset.
C10_RegisterCreatesRegistered ==
    \A c \in ConcCalls :
        ( /\ Done(c, "registerParticipant")
          /\ call[c].race = TheRace /\ call[c].rider \in Riders
          /\ call[c].pre = "none" )
        => /\ call[c].ret = "ok"
           /\ \E id \in OfPair(call[c].race, call[c].rider) :
                 /\ results[id].status = "Registered"
                 /\ ~Has(results[id].startTime)

\* No startRace call is between its first write and its return.
NoStartInFlight ==
    \A c \in ConcCalls : call[c].op = "startRace" => call[c].pc = "done"

\* The race has been started.
RaceStarted == race.status \in {"InProgress", "Completed"}

\* C11: register adds no Result while the race is not Open, and (outside a
\* running start call) no Result is Registered for a race that has been
\* started.
C11_RegisteredOnlyBeforeStart ==
    /\ \A c \in ConcCalls :
          ( /\ Done(c, "registerParticipant")
            /\ call[c].race = TheRace /\ race.status # "Open" )
          => call[c].ret # "ok"
    /\ NoStartInFlight =>
          \A id \in Ids :
              ( results[id].race = TheRace /\ results[id].status = "Registered" )
              => ~RaceStarted

\* C12: a startRace call that read the race as Draft has the race Open when
\* it asks for eligibility and InProgress from its race update on, returns
\* successfully, and on return every Result that was Registered for the race
\* is Started with the one startTime the call returned.
C12_DraftStartPromotes ==
    \A c \in ConcCalls :
        ( /\ call[c].op = "startRace" /\ call[c].race = TheRace
          /\ call[c].pre = "Draft" )
        => /\ call[c].pc = "eligibility" => race.status = "Open"
           /\ call[c].pc \in {"updateMany", "count"} => race.status = "InProgress"
           /\ call[c].pc = "done" =>
                 /\ call[c].ret = "ok"
                 /\ race.status = "InProgress"
                 /\ \A id \in call[c].regd :
                       /\ results[id].status = "Started"
                       /\ results[id].startTime = call[c].retTime

\* A start from Draft that returned with two riders started together.
C12_Witness ==
    \E c \in ConcCalls :
        /\ Succeeded(c, "startRace") /\ call[c].pre = "Draft"
        /\ Cardinality(call[c].regd) >= 2
        /\ \A id \in call[c].regd : results[id].startTime = call[c].retTime

\* Reason startRace fails with when the race it names cannot be started.
StartRefusal(c) ==
    IF call[c].race # TheRace THEN "Race not found"
    ELSE "Race status must be Open to start"

\* A startRace call on a missing race or on a race it read as Closed,
\* InProgress, Completed or Cancelled.
StartRefused(c) ==
    /\ call[c].op = "startRace"
    /\ \/ call[c].race # TheRace
       \/ call[c].pre \in {"Closed", "InProgress", "Completed", "Cancelled"}

\* C13: startRace on a missing race fails with 'Race not found' and on a
\* Closed, InProgress, Completed or Cancelled race with the eligibility
\* reason, and no step of such a call changes the race or any Result.
C13_RefusedStartChangesNothing ==
    [][ \A c \in ConcCalls :
          StartRefused(c)' =>
             /\ race' = race /\ results' = results
             /\ call'[c].pc = "done" => call'[c].ret = StartRefusal(c)' ]_vars

\* A start refused on a Closed race while Results exist.
C13_Witness ==
    \E c \in ConcCalls :
        /\ Done(c, "startRace") /\ call[c].pre = "Closed"
        /\ call[c].ret = "Race status must be Open to start"
        /\ Ids # {}

\* C14: a finishRace call changes the race only when it read it InProgress,
\* and then to status Completed with endTime set to the clock reading; on any
\* other status it fails with 'Only races in progress can be finished' and
\* leaves the race as it was.
C14_FinishOnlyInProgress ==
    [][ \A c \in ConcCalls :
          ( call'[c].op = "finishRace" /\ call'[c].race = TheRace ) =>
             IF call'[c].pre = "InProgress"
             THEN /\ race' # race =>
                       race' = [race EXCEPT !.status = "Completed",
                                            !.endTime = Some(now')]
                  /\ call'[c].pc = "done" =>
                       /\ call'[c].ret = "ok"
                       /\ race'.status = "Completed" /\ Has(race'.endTime)
             ELSE /\ race' = race
                  /\ call'[c].pc = "done"
                  /\ call'[c].ret = "Only races in progress can be finished"
      ]_vars

\* A finish of a race in progress, and a finish refused on a completed one.
C14_Witness ==
    \E c \in ConcCalls :
        /\ Done(c, "finishRace") /\ call[c].pre = "Completed"
        /\ call[c].ret = "Only races in progress can be finished"
        /\ race.status = "Completed" /\ Has(race.endTime)

\* Place of a status on the lifecycle Draft, Open, (Closed,) InProgress,
\* Completed; Cancelled is off the line.
Rank(s) ==
    CASE s = "Draft" -> 0
      [] s = "Open" -> 1
      [] s = "Closed" -> 2
      [] s = "InProgress" -> 3
      [] s = "Completed" -> 4
      [] OTHER -> 5

\* C15: no step takes the race's status back to an earlier state of the
\* lifecycle, and no step takes it out of Completed.
C15_StatusOnlyMovesForward ==
    [][ /\ ( race.status # "Cancelled" /\ race'.status # "Cancelled" )
              => Rank(race'.status) >= Rank(race.status)
        /\ race.status = "Completed" => race'.status = "Completed" ]_vars

\* C16: the eligibility check answers canStart = TRUE exactly when the race
\* exists, its status is Open, and the override is given or the scheduled
\* start is not after the clock reading; without override a later start is
\* refused with the 'Race starts in N minutes' reason; the call changes
\* neither the race nor any Result.
C16_CanStartExactlyWhenOpenAndDue ==
    [][ \A c \in ConcCalls :
          ( call[c].pc = "idle" /\ call'[c].op = "canRaceBeStarted" ) =>
             /\ race' = race /\ results' = results
             /\ call'[c].canStart
                   <=> /\ call'[c].race = TheRace
                       /\ race.status = "Open"
                       /\ call'[c].manual \/ race.startTime <= now'
             /\ ( /\ call'[c].race = TheRace /\ race.status = "Open"
                  /\ ~call'[c].manual /\ race.startTime > now' )
                => call'[c].ret = "Race starts in N minutes" ]_vars

\* A check without override refused because the start is still ahead, on a
\* race that is Open.
C16_Witness ==
    \E c \in ConcCalls :
        /\ Done(c, "canRaceBeStarted") /\ ~call[c].manual
        /\ call[c].race = TheRace /\ race.status = "Open"
        /\ race.startTime > now
        /\ ~call[c].canStart /\ call[c].ret = "Race starts in N minutes"

\* C17: a finishRider call issued while the pair's Result is missing,
\* Registered, Finished, DNF or DSQ changes no Result in any of its steps
\* and ends with 'Rider not found or not started yet'; so a call that
\* succeeds was issued on a Started Result, and a second call right after a
\* successful one fails.
C17_FinishNeedsStarted ==
    [][ \A c \in ConcCalls :
          ( call'[c].op = "finishRider" /\ call'[c].pre # "Started" ) =>
             /\ results' = results
             /\ call'[c].pc = "done" =>
                   call'[c].ret = "Rider not found or not started yet" ]_vars

\* A second finishRider for a rider who has already finished, refused while
\* the first finish is still in the store.
C17_Witness ==
    \E c \in ConcCalls :
        /\ Done(c, "finishRider") /\ call[c].pre = "Finished"
        /\ call[c].ret = "Rider not found or not started yet"
        /\ \E id \in OfPair(call[c].race, call[c].rider) :
              results[id].status = "Finished" /\ Has(results[id].position)

C19_RejectedStatusChangesNothing ==
    [][ \A c \in ConcCalls :
          call'[c].op = "updateRiderStatus" =>
             /\ call'[c].status \notin validStatuses =>
                   /\ call[c].pc = "idle" /\ call'[c].pc = "done"
                   /\ call'[c].ret = "Invalid status"
                   /\ results' = results
             /\ ( call'[c].status \in validStatuses /\ call'[c].pre = "none" ) =>
                   /\ results' = results
                   /\ call'[c].pc = "done" =>
                         call'[c].ret = "Rider not found in this race" ]_vars

\* A valid status refused for a rider with no Result, while the race has
\* Results of other riders.
C19_Witness ==
    \E c \in ConcCalls :
        /\ Done(c, "updateRiderStatus") /\ call[c].status \in validStatuses
        /\ call[c].pre = "none"
        /\ call[c].ret = "Rider not found in this race"
        /\ OfPair(call[c].race, call[c].rider) = {} /\ Ids # {}

\* C20: the store operation of updateRiderStatus with DNF or DSQ, on a pair
\* that has a Result, sets that Result's status to the given one, its
\* finishTime to the clock reading and, when the notes are non-empty, its
\* notes; it leaves the Result's totalTime, startTime and position, its
\* notes when none are given, and every other Result as they were.
C20_WithdrawalWritesOnlyStatusTimeNotes ==
    [][ \A c \in ConcCalls :
          ( /\ call[c].op = "updateRiderStatus" /\ call[c].pc = "statusUpdate"
            /\ call'[c].pc = "done"
            /\ call[c].status \in {"DNF", "DSQ"}
            /\ OfPair(call[c].race, call[c].rider) # {} ) =>
             LET id == FirstOf(OfPair(call[c].race, call[c].rider)) IN
               /\ Len(results') = Len(results)
               /\ \A o \in Ids : o # id => results'[o] = results[o]
               /\ results'[id].status = call[c].status
               /\ results'[id].finishTime = Some(now)
               /\ results'[id].notes =
                     IF Has(call[c].notes) /\ Val(call[c].notes) # ""
                     THEN call[c].notes ELSE results[id].notes
               /\ results'[id].totalTime = results[id].totalTime
               /\ results'[id].startTime = results[id].startTime
               /\ results'[id].position = results[id].position
               /\ results'[id].race = results[id].race
               /\ results'[id].rider = results[id].rider ]_vars

\* A ranked finisher withdrawn with a note: the Result is DNF, carries the
\* note, and still has the totalTime and position of its finish.
C20_Witness ==
    \E c \in ConcCalls :
        /\ Succeeded(c, "updateRiderStatus") /\ call[c].status = "DNF"
        /\ call[c].notes = << "crash" >>
        /\ \E id \in OfPair(call[c].race, call[c].rider) :
              /\ results[id].status = "DNF" /\ results[id].notes = << "crash" >>
              /\ results[id].finishTime = Some(now)
              /\ Has(results[id].totalTime) /\ Has(results[id].position)

\* A startRace call that stopped on a store failure after its first write.
StoppedAfterWrite(c) ==
    /\ Done(c, "startRace") /\ call[c].err # "none"
    /\ call[c].pre = "Draft" \/ call[c].err \in {"updateMany", "count"}

\* C21: when startRace has stopped on a failure after its first write,
\* either the race is InProgress and every Result that was Registered is
\* Started with the race's mass-start time, or the race has the status the
\* call found and every such Result is still Registered.
C21_MassStartAllOrNothing ==
    \A c \in ConcCalls :
        StoppedAfterWrite(c) =>
            \/ /\ race.status = "InProgress"
               /\ \A id \in call[c].regd :
                     /\ results[id].status = "Started"
                     /\ results[id].startTime = Some(race.startTime)
            \/ /\ race.status = call[c].pre
               /\ \A id \in call[c].regd : results[id].status = "Registered"

\* C22: in every state, all Results of the race that have a startTime have
\* the same startTime.
C22_OneStartTimePerRace ==
    \A a, b \in Ids :
        ( /\ results[a].race = results[b].race
          /\ Has(results[a].startTime) /\ Has(results[b].startTime) )
        => results[a].startTime = results[b].startTime

\* C23: a startRace call during whose eligibility check the store failed
\* ends with the store's error.
C23_EligibilityFailurePropagates ==
    \A c \in ConcCalls :
        ( Done(c, "startRace") /\ call[c].err = "eligibility" )
        => call[c].ret = "StoreError"

\* C24: a getLiveStandings call that ran with no write in between returns
\* stillRacing, dnf and dsq equal to the numbers of the race's Results in
\* Started, DNF and DSQ, and totalStarted equal to the sum of the four
\* buckets and to the number of Results that are not Registered.
C24_StandingsCounts ==
    \A c \in ConcCalls :
        Done(c, "getLiveStandings") =>
            LET o == call[c].out
                r == call[c].race IN
              /\ o.stillRacing = Cardinality(Matching(r, {"Started"}))
              /\ o.dnf = Cardinality(Matching(r, {"DNF"}))
              /\ o.dsq = Cardinality(Matching(r, {"DSQ"}))
              /\ o.totalStarted = Len(o.finished) + o.stillRacing + o.dnf + o.dsq
              /\ o.totalStarted =
                    Cardinality(Matching(r, validStatuses \ {"Registered"}))

\* Standings of a race with a Registered, a Started, a Finished and a
\* withdrawn Result.
C24_Witness ==
    \E c \in ConcCalls :
        /\ Done(c, "getLiveStandings") /\ call[c].race = TheRace
        /\ Matching(TheRace, {"Registered"}) # {}
        /\ call[c].out.stillRacing = 1 /\ Len(call[c].out.finished) = 1
        /\ call[c].out.dnf + call[c].out.dsq = 1
        /\ call[c].out.totalStarted = 3

\* C25: the finished list a getLiveStandings call returns holds every
\* Finished Result of the race once, in ascending order of totalTime, and
\* the entry at index i carries position i, whatever positions are stored.
C25_StandingsStampedInOrder ==
    \A c \in ConcCalls :
        Done(c, "getLiveStandings") =>
            LET f == call[c].out.finished IN
              /\ { f[i].id : i \in DOMAIN f } = Matching(call[c].race, {"Finished"})
              /\ Len(f) = Cardinality(Matching(call[c].race, {"Finished"}))
              /\ \A i \in DOMAIN f : f[i].position = i
              /\ \A i, j \in DOMAIN f :
                    ( i < j /\ Has(f[i].totalTime) /\ Has(f[j].totalTime) )
                    => Val(f[i].totalTime) <= Val(f[j].totalTime)

\* Standings over finishers whose stored positions are duplicated, missing
\* and out of step with the list.
C25_Witness ==
    \E c \in ConcCalls :
        /\ Done(c, "getLiveStandings") /\ Len(call[c].out.finished) >= 3
        /\ \E a, b \in Matching(call[c].race, {"Finished"}) :
              a # b /\ Has(results[a].position)
              /\ results[a].position = results[b].position
        /\ \E a \in Matching(call[c].race, {"Finished"}) : ~Has(results[a].position)
        /\ \E i \in DOMAIN call[c].out.finished :
              results[call[c].out.finished[i].id].position # Some(i)

\* C26: getTop3FastestRiders returns min(3, number of Finished results with
\* a totalTime) entries, those with the smallest totalTime in ascending
\* order, ranked 1, 2, 3; the gap is null at rank 1 and '+' followed by
\* formatTime of the difference to the fastest below it (8000, 8500, 9000
\* give null, '+8:20', '+16:40'); the list is empty when nothing is Finished.
C26_Top3RanksAndGaps ==
    \A c \in ConcCalls :
        Done(c, "getTop3FastestRiders") =>
            LET t == call[c].out
                timed == { id \in Matching(call[c].race, {"Finished"}) :
                             Has(results[id].totalTime) }
                listed == { t[i].id : i \in DOMAIN t }
            IN
              /\ Len(t) = IF Cardinality(timed) < 3 THEN Cardinality(timed) ELSE 3
              /\ listed \subseteq timed /\ Cardinality(listed) = Len(t)
              /\ \A i \in DOMAIN t : t[i].totalTime = results[t[i].id].totalTime
              /\ \A i, j \in DOMAIN t :
                    i < j => Val(t[i].totalTime) <= Val(t[j].totalTime)
              /\ \A i \in DOMAIN t : \A id \in timed \ listed :
                    Val(t[i].totalTime) <= Val(results[id].totalTime)
              /\ \A i \in DOMAIN t : t[i].rank = i
              /\ \A i \in DOMAIN t :
                    t[i].gap = IF i = 1 THEN Null
                               ELSE Some("+" \o Template(formatTime(
                                       Some(Val(t[i].totalTime)
                                              - Val(t[1].totalTime)))))
              /\ ( Len(t) = 3 /\ t[1].totalTime = Some(8000)
                     /\ t[2].totalTime = Some(8500) /\ t[3].totalTime = Some(9000) )
                 => ( t[1].gap = Null /\ t[2].gap = Some("+8:20")
                        /\ t[3].gap = Some("+16:40") )
              /\ Matching(call[c].race, {"Finished"}) = {} => t = << >>

\* A top three of 8000, 8500 and 9000 taken from four timed finishers.
C26_Witness ==
    \E c \in ConcCalls :
        /\ Done(c, "getTop3FastestRiders")
        /\ Cardinality({ id \in Matching(call[c].race, {"Finished"}) :
                           Has(results[id].totalTime) }) = 4
        /\ Len(call[c].out) = 3
        /\ call[c].out[1].totalTime = Some(8000)
        /\ call[c].out[2].gap = Some("+8:20")
        /\ call[c].out[3].gap = Some("+16:40")

C28_ReportCountsDisjoint ==
    \A c \in ConcCalls :
        ( Done(c, "generateRaceReport") /\ call[c].out.race # Null ) =>
            LET s == call[c].out.statistics IN
              /\ s.dnfCount = Cardinality(Matching(call[c].race, {"DNF"}))
              /\ s.dsqCount = Cardinality(Matching(call[c].race, {"DSQ"}))
              /\ s.finishedCount + s.dnfCount + s.dsqCount <= s.totalParticipants

\* C29: generateRaceReport for a race id that does not resolve returns
\* {race: null} without an error, and neither issues its reads of the
\* Results nor writes any Result.
C29_MissingRaceReport ==
    [][ \A c \in ConcCalls :
          ( /\ call'[c] # call[c]
            /\ call'[c].op = "generateRaceReport" /\ call'[c].race # TheRace ) =>
              /\ call'[c].pc = "done"
              /\ call'[c].ret = "ok" /\ call'[c].err = "none"
              /\ call'[c].out = [ race |-> Null ]
              /\ call[c].pc = "idle"
              /\ results' = results /\ race' = race ]_vars

\* A report asked for an unknown race while the store holds Results.
C29_Witness ==
    \E c \in ConcCalls :
        /\ Done(c, "generateRaceReport") /\ call[c].race # TheRace
        /\ call[c].out = [ race |-> Null ]
        /\ results # << >>

\* C30: analyzeRaceCompletion returns fastestTime, slowestTime and
\* averageTime all null exactly when the race has no Finished result; with
\* at least one Finished result, fastestTime and slowestTime are the
\* minimum and maximum totalTime over all Finished results, a finisher with
\* totalTime 0 included.
C30_AnalysisTimesOverFinished ==
    \A c \in ConcCalls :
        Done(c, "analyzeRaceCompletion") =>
            LET a == call[c].out
                fin == Matching(call[c].race, {"Finished"})
                timed == { id \in fin : Has(results[id].totalTime) }
            IN
              /\ ( a.fastestTime = Null /\ a.slowestTime = Null
                     /\ a.averageTime = Null ) <=> ( fin = {} )
              /\ timed # {} =>
                    /\ a.fastestTime = Some(MinTotalTime(timed))
                    /\ a.slowestTime = Some(MaxTotalTime(timed))

\* C31: the position recomputation is idempotent: once one run has
\* completed, a further run, with nothing else changing the Results,
\* leaves every field of every Result as it was.
C31_RecomputeIdempotent ==
    [][ budget < MaxRecomputes - 1 => results' = results ]_vars

C33_RiderFinishRequest ==
    [][ \A c \in ConcCalls :
          ( call'[c].op = "riderFinishRoute" /\ call'[c] # call[c] ) =>
              /\ race' = race
              /\ ( call'[c].pc = "done" /\ call'[c].pre = "Started" ) =>
                    \E id \in OfPair(call'[c].race, call'[c].rider) :
                        results'[id].status = "Finished" ]_vars

\* C34: every Result that finishRider turns into Finished has
\* finishTime >= startTime and totalTime >= 0, also when the mass start
\* falls between the call's sampling of the finish instant and its lookup.
C34_FinishNotBeforeStart ==
    [][ \A c \in ConcCalls :
          ( /\ call[c].op = "finishRider" /\ call[c].pc = "update"
            /\ call'[c].pc = "positionsFind" ) =>
              LET r == results'[call[c].found] IN
                /\ r.status = "Finished"
                /\ Has(r.finishTime) /\ Has(r.startTime) /\ Has(r.totalTime)
                /\ Val(r.finishTime) >= Val(r.startTime)
                /\ Val(r.totalTime) >= 0 ]_vars

\* C35: a getLiveStandings call that runs while finishRider or
\* updateRiderStatus calls write counts every Result that is not Registered
\* in exactly one of its four buckets: when it returns and no Result of the
\* race is Registered, totalStarted is the number of the race's Results.
C35_StandingsSnapshot ==
    [][ \A c \in ConcCalls :
          ( /\ call[c].op = "getLiveStandings" /\ call[c].pc = "findDsq"
            /\ call'[c].pc = "done"
            /\ Matching(call[c].race, {"Registered"}) = {} ) =>
              call'[c].out.totalStarted
                  = Cardinality(Matching(call[c].race, validStatuses)) ]_vars

\* C36: whenever the race is InProgress and no startRace call is in flight,
\* every Result that a mass start moved to Started carries the race's
\* startTime, also after two startRace calls that overlapped.
C36_StartTimeAgreesWithRace ==
    ( race.status = "InProgress" /\ NoStartInFlight ) =>
        \A id \in Matching(TheRace, {"Started"}) :
            results[id].startTime = Some(race.startTime)

\* C37: no finishRider call turns a Result that updateRiderStatus has put
\* into DNF or DSQ into Finished, not even a call that read the Result as
\* Started before that write and performs its own write after it.
C37_WithdrawnStaysWithdrawn ==
    [][ \A c \in ConcCalls :
          ( /\ call[c].op = "finishRider" /\ call[c].pc = "update"
            /\ call'[c].pc # "update"
            /\ results[call[c].found].status \in {"DNF", "DSQ"} ) =>
              results'[call[c].found].status # "Finished" ]_vars

\* C38: finishRace changes only the race's status and endTime and modifies
\* no Result, so riders still Started stay Started once the race is
\* Completed, and a later finishRider for such a rider succeeds.
C38_FinishRaceFrame ==
    [][ \A c \in ConcCalls :
          /\ ( ( call[c].op = "finishRace" \/ call'[c].op = "finishRace" )
               /\ call'[c] # call[c] ) =>
                 /\ results' = results
                 /\ race'.startTime = race.startTime
          /\ ( /\ call[c].op = "finishRider" /\ call'[c].op = "finishRider"
               /\ call[c].pc # "done" /\ call'[c].pc = "done"
               /\ call[c].pre = "Started" /\ race.status = "Completed" ) =>
                 /\ call'[c].ret = "ok"
                 /\ \E id \in OfPair(call[c].race, call[c].rider) :
                       results'[id].status = "Finished" ]_vars

\* The race is Completed, one rider finished afterwards and the other is
\* still Started.
C38_Witness ==
    \E c \in ConcCalls :
        /\ race.status = "Completed" /\ Has(race.endTime)
        /\ Succeeded(c, "finishRider") /\ call[c].pre = "Started"
        /\ Val(call[c].retTime) >= 0
        /\ \E a, b \in Ids :
              /\ results[a].status = "Finished" /\ results[a].rider = call[c].rider
              /\ Val(results[a].finishTime) >= Val(race.endTime)
              /\ results[b].status = "Started"

C40_GapIsADuration ==
    \A c \in ConcCalls :
        Done(c, "getTop3FastestRiders") =>
            \A i \in DOMAIN call[c].out :
                i > 1 => /\ Has(call[c].out[i].gap)
                         /\ call[c].out[i].gap # Some("+null")
====
